---- MODULE Spec2Model ----
(***************************************************************************)
(* A model of ai_assistant.py: the persisted index and fingerprint         *)
(* documents of AIAssistant and the operations that read and write them,   *)
(* the conversation history document, and the watch handler's debounce.    *)
(***************************************************************************)
EXTENDS Integers, Sequences, FiniteSets, TLC

VARIABLES
    disk,           \* the project tree: path -> file (or NoFile)
    backup_files,   \* the "<path>.backup" copies write_file leaves: path -> file
    index_file,     \* .ai-context/codebase_index.json
    hashes_file,    \* .ai-context/file_hashes.json
    history_file,   \* .ai-context/conversation_history.json
    appended,       \* every turn save_conversation ever appended, in order
    now,            \* time.time() / datetime.now(), in ticks
    last_update,    \* CodeFileHandler.last_update, in ticks
    accepted_at,    \* when on_modified last went on to update the index, or NoTime
    requests,       \* what the query that ran last posted to the Ollama endpoint
    terminal,       \* the input() prompts of that query and what was typed
    context,        \* what load_context returned last
    scanning,       \* a scan_codebase under way: where it is, and its locals
    updating,       \* an update_single_file under way, likewise
    writers,        \* which of the two wrote each document last
    last            \* the operation that ran last and how it ended

vars == <<disk, backup_files, index_file, hashes_file, history_file, appended,
          now, last_update, accepted_at, requests, terminal, context,
          scanning, updating, writers, last>>

----------------------------------------------------------------------------
(* Bounds of the model *)

\* the clock stops here
MaxTime == 4

\* clock ticks in one second
TicksPerSecond == 2

\* save_conversation is called at most this many times
MaxSaves == 5

----------------------------------------------------------------------------
(* Paths and files *)

Paths == {"a.py", "B.JS", "c.bin"}

\* the order in which os.walk('.') lists the files of the tree
WalkOrder == <<"a.py", "B.JS", "c.bin", "models.py", "d.md", "e.js">>

\* Path(p).suffix
suffix(p) ==
    CASE p = "a.py" -> ".py"
      [] p = "B.JS" -> ".JS"
      [] p = "c.bin" -> ".bin"
      [] p = "models.py" -> ".py"
      [] p = "d.md" -> ".md"
      [] p = "e.js" -> ".js"

\* str.lower() on the strings that occur
lower(s) ==
    CASE s = ".JS" -> ".js"
      [] s = "Y" -> "y"
      [] OTHER -> s

code_extensions ==
    {".py", ".js", ".jsx", ".ts", ".tsx", ".html", ".css", ".json", ".md",
     ".sql", ".yaml", ".yml", ".dockerfile", ".txt"}

IsCodeFile(p) == lower(suffix(p)) \in code_extensions

\* the paths the watch handler passes on
CodePaths == {p \in Paths : IsCodeFile(p)}

TextContents == {"v1", "v2"}

NoFile == [kind |-> "none", content |-> "", mtime |-> 0]

\* A file is text (UTF-8), binary (bytes that do not decode as UTF-8) or locked
\* (open() fails for it).
TextFile(content, mtime) == [kind |-> "text", content |-> content, mtime |-> mtime]

TextFiles == {TextFile("v1", 0), TextFile("v1", 1), TextFile("v2", 1)}

Files ==
    TextFiles
    \cup {[kind |-> "binary", content |-> "bin", mtime |-> 0],
          [kind |-> "locked", content |-> "v1", mtime |-> 0]}

\* Path.exists()
exists(f) == f.kind # "none"

----------------------------------------------------------------------------
(* File content: the lines of each content.  A line is described by what   *)
(* the analyzer looks at: its leading whitespace, the keyword prefix of    *)
(* the stripped line, and the substrings it contains.                      *)

Line(indent, kw, body, len) ==
    [indent |-> indent, kw |-> kw, body |-> body, len |-> len]

\* how many lines of each kind the long content has
MaxMatches == 11

\* the lines of a content with more than 10 import lines and more than 10
\* declaration lines of either category, interleaved; after the keyword
\* each has a name, longer from line to line
ManyLines ==
    [i \in 1..(3 * MaxMatches) |->
        Line(i % 2,
             CASE i % 3 = 1 -> "import "
               [] i % 3 = 2 -> "def "
               [] OTHER -> "function ",
             "name", 10 + i)]

\* content.split('\n')
split(c) ==
    CASE c = "v1" -> << Line(0, "import ", "os", 9),
                        Line(0, "", "", 0),
                        Line(0, "def ", "f(): pass", 13) >>
      [] c = "v2" -> << Line(0, "from ", "os import path", 19),
                        Line(2, "class ", "C: pass", 15),
                        Line(0, "const ", "x = require('y')", 22),
                        Line(0, "const ", "g = () => 1", 17),
                        Line(0, "", "function h() {}", 15),
                        Line(0, "", "z = 1", 5) >>
      [] c = "v3" -> ManyLines
      [] OTHER -> << >>

\* line.strip()
strip(l) == [l EXCEPT !.indent = 0, !.len = l.len - l.indent]

Contains(l, sub) ==
    \/ sub = "require(" /\ l.body = "x = require('y')"
    \/ sub = "=>" /\ l.body = "g = () => 1"
    \/ sub = "function " /\ l.body = "function h() {}"
    \/ sub = "function " /\ l.kw = "function "

RECURSIVE SumLen(_)
SumLen(ls) == IF ls = << >> THEN 0 ELSE Head(ls).len + SumLen(Tail(ls))

\* len(content): the lines and the newlines between them
len(c) == SumLen(split(c)) + (Len(split(c)) - 1)

Min(a, b) == IF a < b THEN a ELSE b

IsImport(l, extension) ==
    IF extension = ".py"
    THEN l.kw = "import " \/ l.kw = "from "
    ELSE IF extension \in {".js", ".jsx", ".ts", ".tsx"}
    THEN l.kw = "import " \/ (l.kw = "const " /\ Contains(l, "require("))
    ELSE FALSE

IsFunction(l, extension) ==
    IF extension = ".py"
    THEN l.kw = "def " \/ l.kw = "class "
    ELSE IF extension \in {".js", ".jsx", ".ts", ".tsx"}
    THEN Contains(l, "function ") \/ (l.kw = "const " /\ Contains(l, "=>"))
    ELSE FALSE

\* the loop of extract_imports: the stripped lines that are imports, in order
RECURSIVE ImportLines(_, _)
ImportLines(ls, extension) ==
    IF ls = << >> THEN << >>
    ELSE LET l == strip(Head(ls))
         IN (IF IsImport(l, extension) THEN <<l>> ELSE << >>)
            \o ImportLines(Tail(ls), extension)

\* the loop of extract_functions
RECURSIVE FunctionLines(_, _)
FunctionLines(ls, extension) ==
    IF ls = << >> THEN << >>
    ELSE LET l == strip(Head(ls))
         IN (IF IsFunction(l, extension) THEN <<l>> ELSE << >>)
            \o FunctionLines(Tail(ls), extension)

extract_imports(c, extension) ==
    LET imports == ImportLines(split(c), extension)
    IN SubSeq(imports, 1, Min(Len(imports), 10))

\* extract_functions without its limit
extract_functions_unlimited(c, extension) == FunctionLines(split(c), extension)

extract_functions(c, extension) ==
    LET functions == FunctionLines(split(c), extension)
    IN SubSeq(functions, 1, Min(Len(functions), 10))

\* the FileRecord scan_codebase and update_single_file build for file f at p
FileRecord(p, f) ==
    [size |-> len(f.content),
     lines |-> Len(split(f.content)),
     extension |-> suffix(p),
     imports |-> extract_imports(f.content, suffix(p)),
     functions |-> extract_functions(f.content, suffix(p)),
     last_modified |-> f.mtime,
     preview |-> SubSeq(split(f.content), 1, Min(Len(split(f.content)), 5))]

----------------------------------------------------------------------------
(* The content hasher *)

None == "None"

\* hashlib.md5(bytes).hexdigest(): one digest per content
md5(c) ==
    CASE c = "v1" -> "md5-v1"
      [] c = "v2" -> "md5-v2"
      [] c = "v3" -> "md5-v3"
      [] c = "bin" -> "md5-bin"

get_file_hash(f) ==
    IF f.kind \in {"text", "binary"} THEN md5(f.content) ELSE None

----------------------------------------------------------------------------
(* A JSON object as json.load returns it and json.dump writes it: a dict,  *)
(* the sequence of its items in insertion order, keys unique.              *)

EmptyDict == << >>

Keys(d) == {d[i].k : i \in 1..Len(d)}

\* key in d
Has(d, key) == key \in Keys(d)

\* d[key]
Get(d, key) == d[CHOOSE i \in 1..Len(d) : d[i].k = key].v

\* d[key] = value: an existing key keeps its place, a new key goes last
Put(d, key, value) ==
    IF Has(d, key)
    THEN [i \in 1..Len(d) |-> IF d[i].k = key THEN [k |-> key, v |-> value] ELSE d[i]]
    ELSE Append(d, [k |-> key, v |-> value])

\* del d[key]
Del(d, key) == SelectSeq(d, LAMBDA item : item.k # key)

\* d's entry for key, or "absent": what a reader of the mapping sees for key
Entry(d, key) == IF Has(d, key) THEN <<"entry", Get(d, key)>> ELSE <<"absent">>

\* A persisted document: missing, malformed (not JSON), or the dict it holds.
Missing == [state |-> "missing", dict |-> EmptyDict]
Malformed == [state |-> "malformed", dict |-> EmptyDict]
Document(d) == [state |-> "ok", dict |-> d]

----------------------------------------------------------------------------
(* load_context *)

\* The questions of the model, and for each the words among those the code
\* looks for that occur in question.lower().
KeywordsIn(question) ==
    CASE question = "Create a model" -> {"create", "model"}
      [] question = "build it" -> {"build"}
      [] question = "What files?" -> {"what", "files"}
      [] OTHER -> {}

\* word in question_lower
Occurs(word, question) == word \in KeywordsIn(question)

\* A context string, by its parts: which header it has, the paths of the
\* "Files: " line, the number of the "Files in project: " line, the "File: "
\* entries, and the number of the "... and N more files" line (0: no line).
Context(kind, files, count, entries, more) ==
    [kind |-> kind, files |-> files, count |-> count, entries |-> entries,
     more |-> more]

\* ""
NoContext == Context("", << >>, 0, << >>, 0)

\* the entry with every declaration of the FileRecord
ContextEntry_all_functions(item) ==
    [filepath |-> item.k, lines |-> item.v.lines, functions |-> item.v.functions]

\* "File: {filepath} ({info['lines']} lines)" and its "Functions: " line,
\* which joins info['functions'][:2] and is left out when there is none
ContextEntry(item) ==
    [filepath |-> item.k, lines |-> item.v.lines,
     functions |-> SubSeq(item.v.functions, 1, Min(Len(item.v.functions), 2))]

\* load_context with the detail context for every question
IsListing_never(question) == FALSE

\* any(word in question_lower for word in ['files', 'what', 'list', 'show'])
IsListing(question) ==
    \E word \in {"files", "what", "list", "show"} : Occurs(word, question)

load_context(question, index_doc) ==
    IF index_doc.state = "missing" THEN NoContext
    ELSE LET index == index_doc.dict
         IN IF IsListing(question)
            THEN Context("=== PROJECT SUMMARY ===",
                         [i \in 1..Len(index) |-> index[i].k], 0, << >>, 0)
            ELSE Context("=== PROJECT CONTEXT ===", << >>, Len(index),
                         [i \in 1..Min(Len(index), 3) |-> ContextEntry(index[i])],
                         IF Len(index) > 3 THEN Len(index) - 3 ELSE 0)

----------------------------------------------------------------------------
(* scan_codebase *)

\* os.walk('.') with the hidden and ignored directories pruned, and the
\* suffix test: the files of the tree the scan and the change check look at
Scanned(d) ==
    SelectSeq(WalkOrder,
              LAMBDA p : p \in DOMAIN d /\ exists(d[p]) /\ IsCodeFile(p))

\* the loop over the files: ps are the files still to visit
RECURSIVE ScanFiles(_, _, _, _, _)
ScanFiles(ps, d, old_hashes, index, current_hashes) ==
    IF ps = << >> THEN [index |-> index, current_hashes |-> current_hashes]
    ELSE LET rel_path == Head(ps)
             f == d[rel_path]
             file_hash == get_file_hash(f)
         IN IF file_hash = None
            THEN ScanFiles(Tail(ps), d, old_hashes, index, current_hashes)
            ELSE LET hashes2 == Put(current_hashes, rel_path, file_hash)
                 IN IF Has(old_hashes, rel_path) /\ Get(old_hashes, rel_path) = file_hash
                    THEN ScanFiles(Tail(ps), d, old_hashes, index, hashes2)
                    ELSE IF f.kind # "text"
                    THEN ScanFiles(Tail(ps), d, old_hashes, index, hashes2)
                    ELSE ScanFiles(Tail(ps), d, old_hashes,
                                   Put(index, rel_path, FileRecord(rel_path, f)),
                                   hashes2)

\* The outcome of scan_codebase on tree d with the two documents as given:
\* json.load of a malformed fingerprint document raises, before anything is
\* written.
scan_codebase(d, index_doc, hashes_doc) ==
    IF hashes_doc.state = "malformed"
    THEN [raised |-> TRUE, index_file |-> index_doc, hashes_file |-> hashes_doc]
    ELSE LET old_hashes == IF hashes_doc.state = "ok" THEN hashes_doc.dict
                           ELSE EmptyDict
             r == ScanFiles(Scanned(d), d, old_hashes, EmptyDict, EmptyDict)
         IN [raised |-> FALSE,
             index_file |-> Document(r.index),
             hashes_file |-> Document(r.current_hashes)]

----------------------------------------------------------------------------
(* check_for_changes *)

\* the walk of check_for_changes: some file's hash is not the persisted one
HashMismatch(d, old_hashes) ==
    \E i \in 1..Len(Scanned(d)) :
        LET rel_path == Scanned(d)[i]
            current_hash == get_file_hash(d[rel_path])
        IN \/ ~Has(old_hashes, rel_path)
           \/ Get(old_hashes, rel_path) # current_hash

\* the loop over old_hashes: some persisted path is no longer on disk
DeletedFile(d, old_hashes) ==
    \E old_file \in Keys(old_hashes) : ~exists(d[old_file])

\* check_for_changes without its loop over the persisted paths
changes_found_no_deleted(d, hashes_doc) ==
    \/ hashes_doc.state = "missing"
    \/ hashes_doc.state = "malformed"
    \/ hashes_doc.state = "ok" /\ HashMismatch(d, hashes_doc.dict)

\* whether check_for_changes calls scan_codebase
changes_found(d, hashes_doc) ==
    \/ hashes_doc.state = "missing"
    \/ hashes_doc.state = "malformed"
    \/ /\ hashes_doc.state = "ok"
       /\ \/ HashMismatch(d, hashes_doc.dict)
          \/ DeletedFile(d, hashes_doc.dict)

check_for_changes(d, index_doc, hashes_doc) ==
    IF changes_found(d, hashes_doc)
    THEN [scanned |-> TRUE] @@ scan_codebase(d, index_doc, hashes_doc)
    ELSE [scanned |-> FALSE, raised |-> FALSE,
          index_file |-> index_doc, hashes_file |-> hashes_doc]

----------------------------------------------------------------------------
(* update_single_file, remove_from_index, write_file *)

\* update_single_file starting from an empty index instead of the loaded one
update_single_file_forgets(p, d, index_doc, hashes_doc) ==
    LET unchanged == [index_file |-> index_doc, hashes_file |-> hashes_doc]
        index == EmptyDict
        hashes == IF hashes_doc.state = "ok" THEN hashes_doc.dict ELSE EmptyDict
        f == d[p]
        file_hash == get_file_hash(f)
    IN IF hashes_doc.state = "malformed" THEN unchanged
       ELSE IF exists(f)
       THEN IF file_hash # None
            THEN IF f.kind # "text" THEN unchanged
                 ELSE [index_file |-> Document(Put(index, p, FileRecord(p, f))),
                       hashes_file |-> Document(Put(hashes, p, file_hash))]
            ELSE [index_file |-> Document(index), hashes_file |-> Document(hashes)]
       ELSE [index_file |-> Document(Del(index, p)),
             hashes_file |-> Document(Del(hashes, p))]

\* The outcome of update_single_file(p).  Whatever raises inside its try
\* block (json.load of a malformed document, reading a file that is not
\* UTF-8) is caught, and then nothing is written.
update_single_file(p, d, index_doc, hashes_doc) ==
    LET unchanged == [index_file |-> index_doc, hashes_file |-> hashes_doc]
        index == IF index_doc.state = "ok" THEN index_doc.dict ELSE EmptyDict
        hashes == IF hashes_doc.state = "ok" THEN hashes_doc.dict ELSE EmptyDict
        f == d[p]
        file_hash == get_file_hash(f)
    IN IF hashes_doc.state = "malformed" THEN unchanged
       ELSE IF exists(f)
       THEN IF file_hash # None
            THEN IF f.kind # "text" THEN unchanged
                 ELSE [index_file |-> Document(Put(index, p, FileRecord(p, f))),
                       hashes_file |-> Document(Put(hashes, p, file_hash))]
            ELSE [index_file |-> Document(index), hashes_file |-> Document(hashes)]
       ELSE [index_file |-> Document(Del(index, p)),
             hashes_file |-> Document(Del(hashes, p))]

\* remove_from_index without its second half, the fingerprint document
remove_from_index_keeps_hash(p, index_doc, hashes_doc) ==
    [index_file |-> IF index_doc.state = "ok"
                    THEN Document(Del(index_doc.dict, p)) ELSE index_doc,
     hashes_file |-> hashes_doc]

\* The outcome of remove_from_index(p): each document is rewritten if it
\* exists; a malformed fingerprint document raises after the index document
\* was rewritten, and the exception is caught.
remove_from_index(p, index_doc, hashes_doc) ==
    [index_file |-> IF index_doc.state = "ok"
                    THEN Document(Del(index_doc.dict, p)) ELSE index_doc,
     hashes_file |-> IF hashes_doc.state = "ok"
                     THEN Document(Del(hashes_doc.dict, p)) ELSE hashes_doc]

\* The outcome of write_file(p, content) when the write gives the file the
\* modification time mtime: shutil.copy2 of a file that cannot be opened
\* raises before anything is written; scan_codebase may raise after the file
\* was written.
write_file(p, content, mtime, d, backups, index_doc, hashes_doc) ==
    IF d[p].kind = "locked"
    THEN [raised |-> TRUE, disk |-> d, backup_files |-> backups,
          index_file |-> index_doc, hashes_file |-> hashes_doc]
    ELSE LET backups2 == IF exists(d[p]) THEN [backups EXCEPT ![p] = d[p]]
                         ELSE backups
             d2 == [d EXCEPT ![p] = [kind |-> "text", content |-> content,
                                     mtime |-> mtime]]
             s == scan_codebase(d2, index_doc, hashes_doc)
         IN [raised |-> s.raised, disk |-> d2, backup_files |-> backups2,
             index_file |-> s.index_file, hashes_file |-> s.hashes_file]

----------------------------------------------------------------------------
(* The state machine of the two documents *)

\* what ran last: the operation, its path argument, whether it called
\* scan_codebase, whether an exception left it, and whether the path had a
\* FileRecord or a FingerprintEntry when it started
Op(op, path, scanned, raised, had) ==
    [op |-> op, path |-> path, scanned |-> scanned, raised |-> raised,
     had |-> had]

\* no scan_codebase is under way
NotScanning ==
    [pc |-> "idle", old_hashes |-> EmptyDict, index |-> EmptyDict,
     current_hashes |-> EmptyDict]

\* no update_single_file is under way
NotUpdating ==
    [pc |-> "idle", path |-> "", index |-> EmptyDict, hashes |-> EmptyDict]

\* neither document was written by a call that ran step by step
NoWriters == [index |-> "none", hashes |-> "none"]

\* what the model leaves alone outside the index operations
OtherUnchanged ==
    UNCHANGED <<history_file, appended, now, last_update, accepted_at,
                requests, terminal, context,
                scanning, updating, writers>>

NoTime == -1

Init ==
    /\ disk = [p \in Paths |-> NoFile]
    /\ backup_files = [p \in Paths |-> NoFile]
    /\ index_file = Missing
    /\ hashes_file = Missing
    /\ history_file = Missing
    /\ appended = << >>
    /\ now = 0
    /\ last_update = 0
    /\ accepted_at = NoTime
    /\ requests = << >>
    /\ terminal = << >>
    /\ context = NoContext
    /\ scanning = NotScanning
    /\ updating = NotUpdating
    /\ writers = NoWriters
    /\ last = Op("init", "", FALSE, FALSE, FALSE)

HasEntry(p) == Has(index_file.dict, p) \/ Has(hashes_file.dict, p)

\* the files the environment may put at p
FilesAt(p) ==
    IF IsCodeFile(p) THEN Files
    ELSE {TextFile("v1", 0)}

\* somebody creates or rewrites the file at p
FsWrite(p, f) ==
    /\ disk[p] # f
    /\ disk' = [disk EXCEPT ![p] = f]
    /\ last' = Op("fs", "", FALSE, FALSE, FALSE)
    /\ UNCHANGED <<backup_files, index_file, hashes_file>>
    /\ OtherUnchanged

\* somebody deletes the file at p
FsDelete(p) ==
    /\ exists(disk[p])
    /\ disk' = [disk EXCEPT ![p] = NoFile]
    /\ last' = Op("fs", "", FALSE, FALSE, FALSE)
    /\ UNCHANGED <<backup_files, index_file, hashes_file>>
    /\ OtherUnchanged

\* the fingerprint document is damaged (a write cut short, an edit by hand)
Corrupt ==
    /\ hashes_file.state = "ok"
    /\ hashes_file' = Malformed
    /\ last' = Op("fs", "", FALSE, FALSE, FALSE)
    /\ UNCHANGED <<disk, backup_files, index_file>>
    /\ OtherUnchanged

\* the .ai-context directory is deleted; the constructor makes it again
RemoveContextDir ==
    /\ hashes_file.state # "missing"
    /\ index_file' = Missing
    /\ hashes_file' = Missing
    /\ last' = Op("fs", "", FALSE, FALSE, FALSE)
    /\ UNCHANGED <<disk, backup_files>>
    /\ OtherUnchanged

\* AIAssistant(): the constructor runs check_for_changes
CheckForChanges ==
    LET r == check_for_changes(disk, index_file, hashes_file)
    IN /\ index_file' = r.index_file
       /\ hashes_file' = r.hashes_file
       /\ last' = Op("check", "", r.scanned, r.raised, FALSE)
       /\ UNCHANGED <<disk, backup_files>>
       /\ OtherUnchanged

\* setup(): scan_codebase
Setup ==
    LET r == scan_codebase(disk, index_file, hashes_file)
    IN /\ index_file' = r.index_file
       /\ hashes_file' = r.hashes_file
       /\ last' = Op("setup", "", TRUE, r.raised, FALSE)
       /\ UNCHANGED <<disk, backup_files>>
       /\ OtherUnchanged

UpdateSingleFile(p) ==
    LET r == update_single_file(p, disk, index_file, hashes_file)
    IN /\ index_file' = r.index_file
       /\ hashes_file' = r.hashes_file
       /\ last' = Op("update", p, FALSE, FALSE, HasEntry(p))
       /\ UNCHANGED <<disk, backup_files>>
       /\ OtherUnchanged

RemoveFromIndex(p) ==
    LET r == remove_from_index(p, index_file, hashes_file)
    IN /\ index_file' = r.index_file
       /\ hashes_file' = r.hashes_file
       /\ last' = Op("remove", p, FALSE, FALSE, HasEntry(p))
       /\ UNCHANGED <<disk, backup_files>>
       /\ OtherUnchanged

WriteFile(p, content, mtime) ==
    LET r == write_file(p, content, mtime, disk, backup_files, index_file,
                        hashes_file)
    IN /\ disk' = r.disk
       /\ backup_files' = r.backup_files
       /\ index_file' = r.index_file
       /\ hashes_file' = r.hashes_file
       /\ last' = Op("write", p, ~(disk[p].kind = "locked"), r.raised, HasEntry(p))
       /\ OtherUnchanged

Next ==
    \/ \E p \in Paths : \E f \in FilesAt(p) : FsWrite(p, f)
    \/ \E p \in Paths : FsDelete(p)
    \/ Corrupt
    \/ RemoveContextDir
    \/ CheckForChanges
    \/ Setup
    \/ \E p \in CodePaths : UpdateSingleFile(p)
    \/ \E p \in CodePaths : RemoveFromIndex(p)

Spec == Init /\ [][Next]_vars

\* a file's permissions are taken away: open() fails for it from now on
Lock(p) ==
    /\ exists(disk[p])
    /\ disk[p].kind # "locked"
    /\ disk' = [disk EXCEPT ![p] = [kind |-> "locked", content |-> "v1", mtime |-> 0]]
    /\ last' = Op("fs", "", FALSE, FALSE, FALSE)
    /\ UNCHANGED <<backup_files, index_file, hashes_file>>
    /\ OtherUnchanged

\* write_file next to the change check, on a tree of source files
NextWrite ==
    \/ \E p \in CodePaths : FsDelete(p)
    \/ \E p \in CodePaths : Lock(p)
    \/ CheckForChanges
    \/ \E p \in CodePaths : \E c \in TextContents : WriteFile(p, c, 1)

SpecWrite == Init /\ [][NextWrite]_vars

----------------------------------------------------------------------------
(* The watch handler: CodeFileHandler *)

\* the debounce window of on_modified, in seconds
DebounceSeconds == 1

\* the handler is constructed (last_update = time.time()) right after the
\* AIAssistant, whose constructor left the documents of an empty tree
InitWatch ==
    /\ disk = [p \in Paths |-> NoFile]
    /\ backup_files = [p \in Paths |-> NoFile]
    /\ index_file = Document(EmptyDict)
    /\ hashes_file = Document(EmptyDict)
    /\ history_file = Missing
    /\ appended = << >>
    /\ now = 0
    /\ last_update = now
    /\ accepted_at = NoTime
    /\ requests = << >>
    /\ terminal = << >>
    /\ context = NoContext
    /\ scanning = NotScanning
    /\ updating = NotUpdating
    /\ writers = NoWriters
    /\ last = Op("init", "", FALSE, FALSE, FALSE)

\* time passes
Tick ==
    /\ now < MaxTime
    /\ now' = now + 1
    /\ last' = Op("tick", "", FALSE, FALSE, FALSE)
    /\ UNCHANGED <<disk, backup_files, index_file, hashes_file, history_file,
                   appended, last_update, accepted_at, requests, terminal,
                   context,
                   scanning, updating, writers>>

\* an editor saves a source file
Save(p, content) ==
    /\ disk[p] # TextFile(content, 1)
    /\ disk' = [disk EXCEPT ![p] = TextFile(content, 1)]
    /\ last' = Op("fs", "", FALSE, FALSE, FALSE)
    /\ UNCHANGED <<backup_files, index_file, hashes_file>>
    /\ OtherUnchanged

\* the handler returns without touching the index
Ignore(p) ==
    /\ last' = Op("ignored", p, FALSE, FALSE, HasEntry(p))
    /\ UNCHANGED <<disk, backup_files, index_file, hashes_file, history_file,
                   appended, now, last_update, accepted_at, requests,
                   terminal, context,
                   scanning, updating, writers>>

\* event.src_path: the path p of the tree as it is, or made absolute
SrcPath(absolute, p) == [absolute |-> absolute, path |-> p]

\* filepath.relative_to('.') raises ValueError for an absolute path; both
\* callers have it inside their try block, before anything is written
relative_to_raises(filepath) == filepath.absolute

\* the handler goes on to update_single_file(filepath)
CallUpdate(filepath) ==
    LET p == filepath.path
        r == IF relative_to_raises(filepath)
             THEN [index_file |-> index_file, hashes_file |-> hashes_file]
             ELSE update_single_file(p, disk, index_file, hashes_file)
    IN /\ index_file' = r.index_file
       /\ hashes_file' = r.hashes_file
       /\ last' = Op("update", p, FALSE, FALSE, HasEntry(p))
       /\ UNCHANGED <<disk, backup_files, history_file, appended, now,
                      requests, terminal, context,
                      scanning, updating, writers>>

\* the handler goes on to remove_from_index(filepath)
CallRemove(filepath) ==
    LET p == filepath.path
        r == IF relative_to_raises(filepath)
             THEN [index_file |-> index_file, hashes_file |-> hashes_file]
             ELSE remove_from_index(p, index_file, hashes_file)
    IN /\ index_file' = r.index_file
       /\ hashes_file' = r.hashes_file
       /\ last' = Op("remove", p, FALSE, FALSE, HasEntry(p))
       /\ UNCHANGED <<disk, backup_files, history_file, appended, now,
                      requests, terminal, context,
                      scanning, updating, writers>>

\* current_time - self.last_update < 1
Debounced(current_time, previous) ==
    current_time - previous < DebounceSeconds * TicksPerSecond

on_modified(src_path, is_directory) ==
    IF is_directory \/ ~IsCodeFile(src_path.path) THEN Ignore(src_path.path)
    ELSE IF Debounced(now, last_update) THEN Ignore(src_path.path)
    ELSE /\ last_update' = now
         /\ accepted_at' = now
         /\ CallUpdate(src_path)

on_created(src_path, is_directory) ==
    IF is_directory \/ ~IsCodeFile(src_path.path) THEN Ignore(src_path.path)
    ELSE /\ UNCHANGED <<last_update, accepted_at>>
         /\ CallUpdate(src_path)

on_deleted(src_path, is_directory) ==
    IF is_directory \/ ~IsCodeFile(src_path.path) THEN Ignore(src_path.path)
    ELSE /\ UNCHANGED <<last_update, accepted_at>>
         /\ CallRemove(src_path)

\* the events the watcher may deliver
Events == {SrcPath(absolute, p) : absolute \in BOOLEAN, p \in Paths}

NextWatch ==
    \/ Tick
    \/ \E p \in CodePaths : \E c \in TextContents : Save(p, c)
    \/ \E p \in CodePaths : FsDelete(p)
    \/ \E e \in Events : \E is_directory \in BOOLEAN : on_modified(e, is_directory)
    \/ \E e \in Events : \E is_directory \in BOOLEAN : on_created(e, is_directory)
    \/ \E e \in Events : \E is_directory \in BOOLEAN : on_deleted(e, is_directory)

SpecWatch == InitWatch /\ [][NextWatch]_vars

----------------------------------------------------------------------------
(* The conversation history *)

Questions == {"q1"}
Responses == {"r1", "r2"}

Turn(type, content, timestamp) ==
    [type |-> type, content |-> content, timestamp |-> timestamp]

\* load_conversation_history without its slice: the whole document
load_conversation_history_all(doc) ==
    IF doc.state = "missing" THEN << >> ELSE doc.dict

\* history[-6:] if len(history) > 6 else history
load_conversation_history(doc) ==
    IF doc.state = "missing" THEN << >>
    ELSE LET history == doc.dict
         IN IF Len(history) > 6
            THEN SubSeq(history, Len(history) - 5, Len(history))
            ELSE history

\* the two turns save_conversation builds at time t
NewTurns(question, response, t) ==
    << Turn("question", question, t), Turn("response", response, t) >>

\* the document save_conversation writes
save_conversation(question, response, t, doc) ==
    Document(load_conversation_history(doc) \o NewTurns(question, response, t))

InitHistory ==
    /\ disk = [p \in Paths |-> NoFile]
    /\ backup_files = [p \in Paths |-> NoFile]
    /\ index_file = Document(EmptyDict)
    /\ hashes_file = Document(EmptyDict)
    /\ history_file = Missing
    /\ appended = << >>
    /\ now = 0
    /\ last_update = 0
    /\ accepted_at = NoTime
    /\ requests = << >>
    /\ terminal = << >>
    /\ context = NoContext
    /\ scanning = NotScanning
    /\ updating = NotUpdating
    /\ writers = NoWriters
    /\ last = Op("init", "", FALSE, FALSE, FALSE)

SaveConversation(question, response) ==
    /\ Len(appended) < 2 * MaxSaves
    /\ history_file' = save_conversation(question, response, now, history_file)
    /\ appended' = appended \o NewTurns(question, response, now)
    /\ last' = Op("save", "", FALSE, FALSE, FALSE)
    /\ UNCHANGED <<disk, backup_files, index_file, hashes_file, now,
                   last_update, accepted_at, requests, terminal, context,
                   scanning, updating, writers>>

NextHistory ==
    \/ Tick
    \/ \E q \in Questions : \E r \in Responses : SaveConversation(q, r)

SpecHistory == InitHistory /\ [][NextHistory]_vars

----------------------------------------------------------------------------
(* query: the prompt, the two requests, the prompts on the terminal *)

\* re.findall(r'```(?:python|javascript|jsx)?\s*\n(.*?)```', response_text):
\* the code blocks of each response of the model, stripped
code_blocks(response_text) ==
    CASE response_text = "r2" -> <<"v2", "v1">>
      [] OTHER -> << >>

extract_code_from_response(response_text) ==
    IF code_blocks(response_text) # << >>
    THEN Head(code_blocks(response_text))
    ELSE None

\* sub in code
CodeContains(code, sub) ==
    \E i \in 1..Len(split(code)) :
        split(code)[i].kw = sub \/ Contains(split(code)[i], sub)

suggest_filename(question, code) ==
    IF Occurs("react", question) \/ Occurs("component", question)
    THEN IF Occurs("user", question) THEN "UserComponent.jsx"
         ELSE IF Occurs("login", question) THEN "LoginComponent.jsx"
         ELSE "Component.jsx"
    ELSE IF Occurs("fastapi", question) \/ Occurs("endpoint", question)
            \/ Occurs("route", question)
    THEN IF Occurs("user", question) THEN "users.py"
         ELSE IF Occurs("auth", question) THEN "auth.py"
         ELSE "routes.py"
    ELSE IF Occurs("model", question) THEN "models.py"
    ELSE IF Occurs("database", question) THEN "database.py"
    ELSE IF Occurs("css", question) \/ Occurs("style", question) THEN "styles.css"
    ELSE IF Occurs("html", question) THEN "index.html"
    ELSE IF CodeContains(code, "import React") \/ CodeContains(code, "jsx")
    THEN "Component.jsx"
    ELSE IF CodeContains(code, "from fastapi") \/ CodeContains(code, "@app.")
    THEN "main.py"
    ELSE IF CodeContains(code, "def ") /\ CodeContains(code, "class ")
    THEN "module.py"
    ELSE None

\* any(word in question_lower for word in ['create', 'write', 'generate', 'build'])
AsksForCode(question) ==
    \E word \in {"create", "write", "generate", "build"} : Occurs(word, question)

\* str.upper() on the turn types
upper(type) ==
    CASE type = "question" -> "QUESTION"
      [] type = "response" -> "RESPONSE"

\* the "=== RECENT CONVERSATION ===" lines: entry['content'][:100] is the
\* whole content, the questions and responses of the model being short
conversation_context(history) ==
    [i \in 1..Len(history) |->
        [type |-> upper(history[i].type), content |-> history[i].content]]

\* the sentence appended to the question, and the file it names
file_instruction(question, write_to_file) ==
    IF write_to_file # None
    THEN [kind |-> "IMPORTANT", file |-> write_to_file]
    ELSE IF AsksForCode(question)
    THEN [kind |-> "SUGGESTION", file |-> ""]
    ELSE [kind |-> "", file |-> ""]

\* the prompt, by the parts the f-string puts together
Prompt(question, write_to_file, index_doc, history_doc) ==
    [context |-> load_context(question, index_doc),
     conversation_context |->
         conversation_context(load_conversation_history(history_doc)),
     question |-> question,
     file_instruction |-> file_instruction(question, write_to_file)]

\* What comes back for a request: status 200 with the response text, another
\* status, or no reply at all (requests.post or the reading of the stream
\* raises).
Reply(status, text) == [status |-> status, text |-> text]

Replies ==
    {Reply("200", r) : r \in Responses}
    \cup {Reply("500", ""), Reply("failure", "")}

Request(stream, prompt, reply) ==
    [stream |-> stream, prompt |-> prompt, reply |-> reply]

\* the fallback request with the file instruction dropped from its prompt
fallback_request_other_prompt(prompt, reply) ==
    Request(FALSE, [prompt EXCEPT !.file_instruction = [kind |-> "", file |-> ""]],
            reply)

\* the request of the except branch
fallback_request(prompt, reply) == Request(FALSE, prompt, reply)

\* the element of a set of one: Only({e(x) : x \in {v}}) is e(v), v being
\* computed once
Only(S) == CHOOSE x \in S : TRUE

\* What query works on: the files and documents, the terminal, the lines
\* still to be read from standard input, and whether an exception is
\* propagating.
World(d, backups, index_doc, hashes_doc, history_doc, turns, stdin) ==
    [disk |-> d, backup_files |-> backups, index_file |-> index_doc,
     hashes_file |-> hashes_doc, history_file |-> history_doc,
     appended |-> turns, terminal |-> << >>, stdin |-> stdin,
     raised |-> FALSE]

\* one input(): its prompt, the file the prompt names, and the line typed
Typed(prompt, file, line) == [prompt |-> prompt, file |-> file, line |-> line]

EOF == "EOF"

\* self.write_file(p, code), the write giving the file modification time 1
call_write_file(w, p, code) ==
    Only({ [w EXCEPT !.raised = r.raised, !.disk = r.disk,
                     !.backup_files = r.backup_files,
                     !.index_file = r.index_file,
                     !.hashes_file = r.hashes_file] :
           r \in {write_file(p, code, 1, w.disk, w.backup_files, w.index_file,
                             w.hashes_file)} })

\* confirm_and_write without the test of the answer
confirm_and_write_any_answer(w, p, code) ==
    IF w.stdin = << >>
    THEN [w EXCEPT !.raised = TRUE,
                   !.terminal = Append(@, Typed("confirm", p, EOF))]
    ELSE call_write_file([w EXCEPT !.stdin = Tail(@),
                                   !.terminal = Append(@, Typed("confirm", p,
                                                                Head(w.stdin)))],
                         p, code)

\* confirm = input("... (y/n): "): input() raises EOFError at the end of
\* standard input
\* if confirm.lower() == 'y': self.write_file(p, code)
confirm_and_write(w, p, code) ==
    IF w.stdin = << >>
    THEN [w EXCEPT !.raised = TRUE,
                   !.terminal = Append(@, Typed("confirm", p, EOF))]
    ELSE LET confirm == Head(w.stdin)
             w2 == [w EXCEPT !.stdin = Tail(@),
                             !.terminal = Append(@, Typed("confirm", p, confirm))]
         IN IF lower(confirm) = "y" THEN call_write_file(w2, p, code) ELSE w2

\* filename.strip() on the lines that are typed
stripped(filename) == IF filename = " " THEN "" ELSE filename

\* filename = input("Enter filename ...")
\* if filename.strip(): self.write_file(filename, code)
ask_filename_and_write(w, code) ==
    IF w.stdin = << >>
    THEN [w EXCEPT !.raised = TRUE,
                   !.terminal = Append(@, Typed("filename", "", EOF))]
    ELSE LET filename == Head(w.stdin)
             w2 == [w EXCEPT !.stdin = Tail(@),
                             !.terminal = Append(@, Typed("filename", "", filename))]
         IN IF stripped(filename) # "" THEN call_write_file(w2, filename, code)
            ELSE w2

\* self.save_conversation(question, full_response) at time t
call_save_conversation(w, question, full_response, t) ==
    [w EXCEPT !.history_file = save_conversation(question, full_response, t, @),
              !.appended = @ \o NewTurns(question, full_response, t)]

\* the branch "if write_to_file:" of both paths
write_requested(w, write_to_file, full_response) ==
    LET code == extract_code_from_response(full_response)
    IN IF code # None THEN confirm_and_write(w, write_to_file, code) ELSE w

\* the branch "if not write_to_file and any(...)" of the streaming path
write_offered(w, question, full_response) ==
    LET code == extract_code_from_response(full_response)
    IN IF code = None THEN w
       ELSE LET suggested_file == suggest_filename(question, code)
            IN IF suggested_file # None
               THEN confirm_and_write(w, suggested_file, code)
               ELSE ask_filename_and_write(w, code)

\* the try block once the streaming request was posted: what it leaves, with
\* raised set when an exception reaches "except Exception"
streaming_path(w, question, write_to_file, reply, t) ==
    IF reply.status = "failure" THEN [w EXCEPT !.raised = TRUE]
    ELSE IF reply.status # "200" THEN w
    ELSE Only({ IF w2.raised \/ write_to_file = None THEN w2
                ELSE write_requested(w2, write_to_file, reply.text) :
                w2 \in {LET w1 == call_save_conversation(w, question,
                                                         reply.text, t)
                        IN IF write_to_file = None /\ AsksForCode(question)
                           THEN write_offered(w1, question, reply.text)
                           ELSE w1} })

\* the inner try block once the fallback request was posted; its except
\* clause catches whatever is raised
fallback_path(w, question, write_to_file, reply, t) ==
    IF reply.status # "200" THEN w
    ELSE LET w1 == call_save_conversation(w, question, reply.text, t)
         IN [(IF write_to_file = None THEN w1
              ELSE write_requested(w1, write_to_file, reply.text))
             EXCEPT !.raised = FALSE]

\* query(question, write_to_file) at time t on world w, reply and
\* fallback_reply being what the endpoint has for the first and for the
\* second request: the world it leaves, the requests it posted and the
\* context it loaded
query(w, question, write_to_file, reply, fallback_reply, t) ==
    Only({ IF ~s.raised
           THEN [world |-> s, requests |-> << Request(TRUE, prompt, reply) >>,
                 context |-> prompt.context]
           ELSE [world |-> fallback_path([s EXCEPT !.raised = FALSE], question,
                                         write_to_file, fallback_reply, t),
                 requests |-> << Request(TRUE, prompt, reply),
                                 fallback_request(prompt, fallback_reply) >>,
                 context |-> prompt.context] :
           prompt \in {Prompt(question, write_to_file, w.index_file,
                              w.history_file)},
           s \in {streaming_path(w, question, write_to_file, reply, t)} })

QueryPaths == {"a.py", "models.py"}

QueryQuestions == {"q1", "Create a model", "build it"}

InitQuery ==
    /\ disk = [p \in QueryPaths |-> NoFile]
    /\ backup_files = [p \in QueryPaths |-> NoFile]
    /\ index_file = Missing
    /\ hashes_file = Missing
    /\ history_file = Missing
    /\ appended = << >>
    /\ now = 0
    /\ last_update = 0
    /\ accepted_at = NoTime
    /\ requests = << >>
    /\ terminal = << >>
    /\ context = NoContext
    /\ scanning = NotScanning
    /\ updating = NotUpdating
    /\ writers = NoWriters
    /\ last = Op("init", "", FALSE, FALSE, FALSE)

\* python3 ai_assistant.py <question> / write <question> <filename>:
\* AIAssistant() runs check_for_changes, then query runs; stdin is what is
\* typed at the prompts.  The model follows one run of the command, on the
\* files and the history that were there before it.
Query(question, write_to_file, reply, fallback_reply, stdin) ==
    /\ last.op # "query"
    /\ \E c \in {check_for_changes(disk, index_file, hashes_file)} :
       \E q \in {query(World(disk, backup_files, c.index_file, c.hashes_file,
                             history_file, appended, stdin),
                       question, write_to_file, reply, fallback_reply, now)} :
       /\ ~c.raised
       /\ disk' = q.world.disk
       /\ backup_files' = q.world.backup_files
       /\ index_file' = q.world.index_file
       /\ hashes_file' = q.world.hashes_file
       /\ history_file' = q.world.history_file
       /\ appended' = q.world.appended
       /\ requests' = q.requests
       /\ terminal' = q.world.terminal
       /\ context' = q.context
       /\ last' = Op("query", IF write_to_file = None THEN "" ELSE write_to_file,
                     c.scanned, q.world.raised, FALSE)
       /\ UNCHANGED <<now, last_update, accepted_at, scanning, updating, writers>>

\* the lines a user types: Y or n at a y/n prompt, a file name or a blank
\* line at the file name prompt
Lines(question, write_to_file) ==
    IF write_to_file # None \/ suggest_filename(question, "") # None
    THEN {"Y", "n"}
    ELSE {"a.py", " "}

\* standard input: up to two lines, then its end
Stdin(question, write_to_file) ==
    {<< >>}
    \cup {<<l>> : l \in Lines(question, write_to_file)}
    \cup {<<l, m>> : l, m \in Lines(question, write_to_file)}

NextQuery ==
    \/ /\ last.op # "query"
       /\ \/ \E p \in QueryPaths : \E c \in TextContents : Save(p, c)
          \/ \E p \in QueryPaths : Lock(p)
          \/ \E q \in Questions : SaveConversation(q, "r1")
    \/ \E question \in QueryQuestions :
       \E write_to_file \in {None, "a.py"} :
       \E reply \in Replies, fallback_reply \in Replies :
       \E stdin \in Stdin(question, write_to_file) :
           Query(question, write_to_file, reply, fallback_reply, stdin)

SpecQuery == InitQuery /\ [][NextQuery]_vars
----------------------------------------------------------------------------
(* The analyzer and load_context on scanned trees *)

ContextPaths == {"a.py", "B.JS", "models.py", "d.md", "e.js"}

ContextFiles == {NoFile, TextFile("v1", 0), TextFile("v3", 0)}

ContextQuestions == {"q1", "What files?"}

\* any tree of short and long files, not scanned yet
InitContext ==
    /\ disk \in [ContextPaths -> ContextFiles]
    /\ backup_files = [p \in ContextPaths |-> NoFile]
    /\ index_file = Missing
    /\ hashes_file = Missing
    /\ history_file = Missing
    /\ appended = << >>
    /\ now = 0
    /\ last_update = 0
    /\ accepted_at = NoTime
    /\ requests = << >>
    /\ terminal = << >>
    /\ context = NoContext
    /\ scanning = NotScanning
    /\ updating = NotUpdating
    /\ writers = NoWriters
    /\ last = Op("init", "", FALSE, FALSE, FALSE)

\* context = self.load_context(question)
LoadContext(question) ==
    /\ context' = load_context(question, index_file)
    /\ last' = Op("context", "", FALSE, FALSE, FALSE)
    /\ UNCHANGED <<disk, backup_files, index_file, hashes_file, history_file,
                   appended, now, last_update, accepted_at, requests,
                   terminal, scanning, updating, writers>>

NextContext ==
    \/ Setup
    \/ \E question \in ContextQuestions : LoadContext(question)

SpecContext == InitContext /\ [][NextContext]_vars

----------------------------------------------------------------------------
(* A crash between the two writes.  scan_codebase, update_single_file and  *)
(* remove_from_index each write the index document first and the           *)
(* fingerprint document second; the process may die in between.            *)

\* what a crash after the first write leaves of an operation's outcome r
AfterIndexWrite(r, hashes_doc) ==
    [index_file |-> r.index_file, hashes_file |-> hashes_doc]

\* the process died in operation op, which "path" names further
Crash(op, path, r) ==
    /\ index_file' = AfterIndexWrite(r, hashes_file).index_file
    /\ hashes_file' = AfterIndexWrite(r, hashes_file).hashes_file
    /\ last' = Op("crash", path, op = "scan", TRUE, FALSE)
    /\ UNCHANGED <<disk, backup_files>>
    /\ OtherUnchanged

\* setup dies in scan_codebase between lines 191 and 193
CrashInSetup ==
    \E r \in {scan_codebase(disk, index_file, hashes_file)} :
        ~r.raised /\ Crash("scan", "setup", r)

\* the constructor's check_for_changes dies in the scan_codebase it called
CrashInCheck ==
    \E r \in {check_for_changes(disk, index_file, hashes_file)} :
        r.scanned /\ ~r.raised /\ Crash("scan", "check", r)

\* update_single_file dies between lines 338 and 340
CrashInUpdate(p) ==
    \E r \in {update_single_file(p, disk, index_file, hashes_file)} :
        Crash("update", p, r)

\* remove_from_index, called for a file that was deleted, dies between
\* lines 358 and 361
CrashInRemove(p) ==
    \E r \in {remove_from_index(p, index_file, hashes_file)} :
        ~exists(disk[p]) /\ Crash("remove", p, r)

NextCrash ==
    \/ \E p \in CodePaths : \E c \in TextContents : Save(p, c)
    \/ \E p \in CodePaths : FsDelete(p)
    \/ CheckForChanges
    \/ Setup
    \/ \E p \in CodePaths : UpdateSingleFile(p)
    \/ \E p \in CodePaths : RemoveFromIndex(p)
    \/ CrashInSetup
    \/ CrashInCheck
    \/ \E p \in CodePaths : CrashInUpdate(p)
    \/ \E p \in CodePaths : CrashInRemove(p)

SpecCrash == Init /\ [][NextCrash]_vars

----------------------------------------------------------------------------
(* scan_codebase and update_single_file step by step: the foreground runs a
   full rescan while the watcher's thread updates one file.  Neither takes a
   lock, so each step below is enabled whatever the other call is doing. *)

\* a writer that kept what the document held under the paths it does not
\* hold itself
Overwrite_merging(own, doc) ==
    Document(own \o SelectSeq(doc.dict, LAMBDA e : ~Has(own, e.k)))

\* open(file, 'w') and json.dump(own, f): the document becomes what the
\* writer holds, whatever it held before
Overwrite(own, doc) == Document(own)

\* json.load of a document that may not exist yet
Loaded(doc) == IF doc.state = "ok" THEN doc.dict ELSE EmptyDict

\* scan_codebase, lines 136-143: old_hashes is read
ScanLoadHashes ==
    /\ scanning.pc = "idle"
    /\ scanning' = IF hashes_file.state = "malformed"
                   THEN [scanning EXCEPT !.pc = "done"]
                   ELSE [scanning EXCEPT !.pc = "loaded",
                                         !.old_hashes = Loaded(hashes_file)]
    /\ last' = Op("scan", "", TRUE, hashes_file.state = "malformed", FALSE)
    /\ UNCHANGED <<disk, backup_files, index_file, hashes_file, updating,
                   writers>>
    /\ UNCHANGED <<history_file, appended, now, last_update, accepted_at,
                   requests, terminal, context>>

\* lines 145-187: the walk fills index and current_hashes
ScanWalk ==
    /\ scanning.pc = "loaded"
    /\ \E r \in {ScanFiles(Scanned(disk), disk, scanning.old_hashes,
                           EmptyDict, EmptyDict)} :
           scanning' = [scanning EXCEPT !.pc = "walked",
                                        !.index = r.index,
                                        !.current_hashes = r.current_hashes]
    /\ last' = Op("scan", "", TRUE, FALSE, FALSE)
    /\ UNCHANGED <<disk, backup_files, index_file, hashes_file, updating,
                   writers>>
    /\ UNCHANGED <<history_file, appended, now, last_update, accepted_at,
                   requests, terminal, context>>

\* lines 190-191
ScanWriteIndex ==
    /\ scanning.pc = "walked"
    /\ index_file' = Overwrite(scanning.index, index_file)
    /\ scanning' = [scanning EXCEPT !.pc = "index_written"]
    /\ writers' = [writers EXCEPT !.index = "scan"]
    /\ last' = Op("scan", "", TRUE, FALSE, FALSE)
    /\ UNCHANGED <<disk, backup_files, hashes_file, updating>>
    /\ UNCHANGED <<history_file, appended, now, last_update, accepted_at,
                   requests, terminal, context>>

\* lines 193-194
ScanWriteHashes ==
    /\ scanning.pc = "index_written"
    /\ hashes_file' = Overwrite(scanning.current_hashes, hashes_file)
    /\ scanning' = [scanning EXCEPT !.pc = "done"]
    /\ writers' = [writers EXCEPT !.hashes = "scan"]
    /\ last' = Op("scan", "", TRUE, FALSE, FALSE)
    /\ UNCHANGED <<disk, backup_files, index_file, updating>>
    /\ UNCHANGED <<history_file, appended, now, last_update, accepted_at,
                   requests, terminal, context>>

\* update_single_file(p), lines 297-300: the index is read
UpdateLoadIndex(p) ==
    /\ updating.pc = "idle"
    /\ updating' = IF index_file.state = "malformed"
                   THEN [updating EXCEPT !.pc = "done", !.path = p]
                   ELSE [updating EXCEPT !.pc = "index_loaded", !.path = p,
                                         !.index = Loaded(index_file)]
    /\ last' = Op("update", p, FALSE, index_file.state = "malformed", FALSE)
    /\ UNCHANGED <<disk, backup_files, index_file, hashes_file, scanning,
                   writers>>
    /\ UNCHANGED <<history_file, appended, now, last_update, accepted_at,
                   requests, terminal, context>>

\* lines 303-306: the fingerprints are read
UpdateLoadHashes ==
    /\ updating.pc = "index_loaded"
    /\ updating' = IF hashes_file.state = "malformed"
                   THEN [updating EXCEPT !.pc = "done"]
                   ELSE [updating EXCEPT !.pc = "loaded",
                                         !.hashes = Loaded(hashes_file)]
    /\ last' = Op("update", updating.path, FALSE,
                  hashes_file.state = "malformed", FALSE)
    /\ UNCHANGED <<disk, backup_files, index_file, hashes_file, scanning,
                   writers>>
    /\ UNCHANGED <<history_file, appended, now, last_update, accepted_at,
                   requests, terminal, context>>

\* reading the file raises after its hash was taken (lines 317-318)
UpdateRaises(f) ==
    exists(f) /\ get_file_hash(f) # None /\ f.kind # "text"

\* lines 308-335: the file is read and the two mappings are changed
UpdateFile ==
    /\ updating.pc = "loaded"
    /\ \E r \in {update_single_file(updating.path, disk,
                                    Document(updating.index),
                                    Document(updating.hashes))} :
           updating' = IF UpdateRaises(disk[updating.path])
                       THEN [updating EXCEPT !.pc = "done"]
                       ELSE [updating EXCEPT !.pc = "changed",
                                             !.index = r.index_file.dict,
                                             !.hashes = r.hashes_file.dict]
    /\ last' = Op("update", updating.path, FALSE,
                  UpdateRaises(disk[updating.path]), FALSE)
    /\ UNCHANGED <<disk, backup_files, index_file, hashes_file, scanning,
                   writers>>
    /\ UNCHANGED <<history_file, appended, now, last_update, accepted_at,
                   requests, terminal, context>>

\* lines 338-339
UpdateWriteIndex ==
    /\ updating.pc = "changed"
    /\ index_file' = Overwrite(updating.index, index_file)
    /\ updating' = [updating EXCEPT !.pc = "index_written"]
    /\ writers' = [writers EXCEPT !.index = "update"]
    /\ last' = Op("update", updating.path, FALSE, FALSE, FALSE)
    /\ UNCHANGED <<disk, backup_files, hashes_file, scanning>>
    /\ UNCHANGED <<history_file, appended, now, last_update, accepted_at,
                   requests, terminal, context>>

\* lines 340-341
UpdateWriteHashes ==
    /\ updating.pc = "index_written"
    /\ hashes_file' = Overwrite(updating.hashes, hashes_file)
    /\ updating' = [updating EXCEPT !.pc = "done"]
    /\ writers' = [writers EXCEPT !.hashes = "update"]
    /\ last' = Op("update", updating.path, FALSE, FALSE, FALSE)
    /\ UNCHANGED <<disk, backup_files, index_file, scanning>>
    /\ UNCHANGED <<history_file, appended, now, last_update, accepted_at,
                   requests, terminal, context>>

\* an earlier run of the program, before the two calls of this one start
EarlierRun ==
    /\ scanning.pc = "idle"
    /\ updating.pc = "idle"
    /\ CheckForChanges

\* the files that are edited while the two calls run
RacePaths == {"a.py"}

\* a file is saved before the two calls start
EarlierSave(p, content) ==
    /\ scanning.pc = "idle"
    /\ updating.pc = "idle"
    /\ Save(p, content)

NextRace ==
    \/ \E p \in CodePaths : \E c \in TextContents : EarlierSave(p, c)
    \/ \E p \in RacePaths : \E c \in TextContents : Save(p, c)
    \/ \E p \in RacePaths : FsDelete(p)
    \/ EarlierRun
    \/ ScanLoadHashes
    \/ ScanWalk
    \/ ScanWriteIndex
    \/ ScanWriteHashes
    \/ \E p \in RacePaths : UpdateLoadIndex(p)
    \/ UpdateLoadHashes
    \/ UpdateFile
    \/ UpdateWriteIndex
    \/ UpdateWriteHashes

SpecRace == Init /\ [][NextRace]_vars

----------------------------------------------------------------------------
(* The index and fingerprint documents: properties *)

\* a full rescan ran in the last step and returned
RescanCompleted == last.scanned /\ ~last.raised

\* the supported files of the tree that read as text
Indexable(p) == IsCodeFile(p) /\ disk[p].kind = "text"

\* C1: a full rescan that follows a completed full rescan, with nothing done
\* to the tree or the documents in between, persists the index the first one
\* persisted.
C1_RescanIdempotent ==
    [][(RescanCompleted /\ Setup) => index_file' = index_file]_vars

\* C2: after a completed full rescan the index has a FileRecord for p exactly
\* when p is a supported file on disk that reads as text, and a file whose
\* fingerprint is the persisted one keeps the FileRecord it had.
C2_IndexMatchesDisk ==
    [][(Next /\ RescanCompleted') =>
         /\ \A p \in Paths : Has(index_file'.dict, p) <=> Indexable(p)'
         /\ \A p \in Paths :
              (/\ Has(index_file.dict, p)
               /\ Has(hashes_file.dict, p)
               /\ Has(hashes_file'.dict, p)
               /\ Get(hashes_file.dict, p) = Get(hashes_file'.dict, p))
              => Entry(index_file'.dict, p) = Entry(index_file.dict, p)]_vars

\* C3: after a completed full rescan, single-file update or removal, a path
\* has a FingerprintEntry exactly when it has a FileRecord, and the entry is
\* the fingerprint of a content that gives that FileRecord.
C3_UpdatedTogether ==
    (last.op \in {"check", "setup", "update", "remove"} /\ ~last.raised) =>
        \A p \in Paths :
            /\ Has(hashes_file.dict, p) <=> Has(index_file.dict, p)
            /\ Has(index_file.dict, p) =>
                 \E f \in Files :
                     /\ get_file_hash(f) = Get(hashes_file.dict, p)
                     /\ FileRecord(p, f) = Get(index_file.dict, p)

\* the fingerprint the Content Hasher gives for p now is not the persisted one
FingerprintDiffers(p) ==
    \/ ~Has(hashes_file.dict, p)
    \/ Get(hashes_file.dict, p) # get_file_hash(disk[p])

\* the three cases C4 names
C4_Cases ==
    \/ hashes_file.state = "missing"
    \/ \E p \in Paths : exists(disk[p]) /\ IsCodeFile(p) /\ FingerprintDiffers(p)
    \/ \E p \in Keys(hashes_file.dict) : ~exists(disk[p])

C5_DeletedFileDropped ==
    [][\A p \in Paths :
         (Has(index_file.dict, p) /\ ~exists(disk[p]) /\ CheckForChanges) =>
            /\ RescanCompleted'
            /\ ~Has(index_file'.dict, p)
            /\ ~Has(hashes_file'.dict, p)]_vars

\* C6: with a malformed fingerprint document check_for_changes does not
\* raise, and leaves two well-formed documents.
C6_MalformedRecovered ==
    [][(hashes_file.state = "malformed" /\ CheckForChanges) =>
         /\ ~last'.raised
         /\ index_file'.state = "ok"
         /\ hashes_file'.state = "ok"]_vars

\* C7: update_single_file(p) leaves the FileRecord and the FingerprintEntry
\* of every other path as they were.
C7_UpdateFrame ==
    [][\A p \in CodePaths :
         UpdateSingleFile(p) =>
            \A q \in Paths \ {p} :
                /\ Entry(index_file'.dict, q) = Entry(index_file.dict, q)
                /\ Entry(hashes_file'.dict, q) = Entry(hashes_file.dict, q)]_vars

\* a single-file update ran for a path that had entries, next to another
\* path's entries
C7_Witness ==
    /\ last.op = "update" /\ last.had
    /\ \E q \in Paths \ {last.path} :
           Has(index_file.dict, q) /\ Has(hashes_file.dict, q)

\* C8: remove_from_index(p) leaves no FileRecord and no FingerprintEntry for
\* p, changes nothing when p had neither, and run again changes nothing.
C8_RemoveIdempotent ==
    [][\A p \in CodePaths :
         RemoveFromIndex(p) =>
            /\ ~Has(index_file'.dict, p)
            /\ ~Has(hashes_file'.dict, p)
            /\ (~Has(index_file.dict, p) /\ ~Has(hashes_file.dict, p))
                 => UNCHANGED <<index_file, hashes_file>>
            /\ remove_from_index(p, index_file', hashes_file')
                 = [index_file |-> index_file', hashes_file |-> hashes_file']]_vars

\* a removal ran for a path that had both entries, and they are gone
C8_Witness ==
    /\ last.op = "remove" /\ last.had
    /\ index_file.state = "ok" /\ hashes_file.state = "ok"
    /\ ~Has(index_file.dict, last.path)
    /\ ~Has(hashes_file.dict, last.path)

----------------------------------------------------------------------------
(* The watch handler and the history: properties *)

\* C9: on_modified for a supported file is suppressed exactly when it comes
\* less than one second after the modified event accepted before it, so never
\* when none was accepted before; on_created and on_deleted are never
\* suppressed and leave the debounce timestamp alone.
C9_Debounce ==
    [][\A p \in CodePaths : \A absolute \in BOOLEAN :
         /\ on_modified(SrcPath(absolute, p), FALSE) =>
              ((last'.op = "ignored") <=>
                 (accepted_at # NoTime /\ Debounced(now, accepted_at)))
         /\ on_created(SrcPath(absolute, p), FALSE) =>
              (last'.op = "update" /\ last_update' = last_update)
         /\ on_deleted(SrcPath(absolute, p), FALSE) =>
              (last'.op = "remove" /\ last_update' = last_update)]_vars

\* C10: the history document holds every turn ever appended, in the order
\* of appending.
C10_HistoryKeepsAll ==
    last.op = "save" => history_file.dict = appended

\* the last n items of s, all of s when it has fewer
LastItems(s, n) == SubSeq(s, Len(s) - Min(n, Len(s)) + 1, Len(s))

\* C11: load_conversation_history returns at most 6 turns, the 6 appended
\* last, in the order of appending.
C11_ReadBackLastSix ==
    LET history == load_conversation_history(history_file)
    IN /\ Len(history) <= 6
       /\ history = LastItems(appended, 6)

\* more than 6 turns were appended
C11_Witness == last.op = "save" /\ Len(appended) > 6

----------------------------------------------------------------------------
(* query: properties *)

\* the step is one run of query
QueryRan == last'.op = "query"

\* some request of the query that ran last was answered with status 200
Answered == \E i \in 1..Len(requests) : requests[i].reply.status = "200"

\* C12: a query that got a response appends one question turn followed by
\* one response turn, and no query appends more than that pair.
C12_OnePairPerQuery ==
    [][QueryRan =>
         IF Answered'
         THEN /\ Len(appended') = Len(appended) + 2
              /\ SubSeq(appended', 1, Len(appended)) = appended
              /\ appended'[Len(appended) + 1].type = "question"
              /\ appended'[Len(appended) + 2].type = "response"
         ELSE appended' = appended]_vars

\* C13: the first request of a query streams; when it gets no reply, one
\* request follows, not streaming and with the same prompt; no query posts
\* more than two requests, and none ends with an exception, whatever
\* becomes of the second request.
C13_StreamingThenOneFallback ==
    last.op = "query" =>
        /\ Len(requests) \in {1, 2}
        /\ requests[1].stream
        /\ requests[1].reply.status = "failure" =>
               /\ Len(requests) = 2
               /\ ~requests[2].stream
               /\ requests[2].prompt = requests[1].prompt
        /\ ~last.raised

\* both requests of a write query failed, the prompt carrying earlier turns
C13_Witness ==
    /\ last.op = "query"
    /\ last.path = "a.py"
    /\ Len(requests) = 2
    /\ requests[1].reply.status = "failure"
    /\ requests[2].reply.status = "failure"
    /\ requests[1].prompt.conversation_context # << >>

\* some response of the last query has a code block
HasCodeBlock ==
    \E i \in 1..Len(requests) :
        /\ requests[i].reply.status = "200"
        /\ extract_code_from_response(requests[i].reply.text) # None

\* the user answered y at a confirmation prompt of the last query
Confirmed ==
    \E i \in 1..Len(terminal) :
        terminal[i].prompt = "confirm" /\ lower(terminal[i].line) = "y"

\* C14: in write mode the named file changes only when a response had a code
\* block and the user confirmed; an overwritten file's previous content is
\* then in its backup; without code block or confirmation neither the file
\* nor its backup changes.
C14_WriteOnlyConfirmedCode ==
    [][QueryRan /\ last'.path # "" =>
         LET p == last'.path
         IN /\ disk'[p] # disk[p] => HasCodeBlock' /\ Confirmed'
            /\ disk'[p] # disk[p] /\ exists(disk[p]) =>
                   backup_files'[p] = disk[p]
            /\ ~(HasCodeBlock' /\ Confirmed') =>
                   /\ disk'[p] = disk[p]
                   /\ backup_files'[p] = backup_files[p]]_vars

\* a write query has overwritten a.py and its backup holds what was there
C14_Witness ==
    /\ last.op = "query"
    /\ last.path = "a.py"
    /\ disk["a.py"] = TextFile("v2", 1)
    /\ backup_files["a.py"] = TextFile("v1", 1)

----------------------------------------------------------------------------
(* load_context and the analyzer: properties *)

\* the question has one of the words files, what, list, show
HasListingKeyword(question) ==
    \/ Occurs("files", question)
    \/ Occurs("what", question)
    \/ Occurs("list", question)
    \/ Occurs("show", question)

\* C15: on a question with a listing keyword the context names every path of
\* the index and has no per-file entry, so no line count and no declaration.
C15_ListingNamesEveryPath ==
    [][\A question \in ContextQuestions :
         LoadContext(question) /\ HasListingKeyword(question) =>
             /\ \A p \in Keys(index_file.dict) :
                    \E i \in 1..Len(context'.files) : context'.files[i] = p
             /\ context'.entries = << >>
             /\ context'.count = 0 /\ context'.more = 0]_vars

\* a listing of an index of four files or more
C15_Witness ==
    /\ last.op = "context"
    /\ context.kind = "=== PROJECT SUMMARY ==="
    /\ Len(context.files) >= 4
    /\ Len(index_file.dict) >= 4

\* s is the first items of t, at most n of them
IsPrefixUpTo(s, t, n) ==
    /\ Len(s) = Min(Len(t), n)
    /\ \A i \in 1..Len(s) : s[i] = t[i]

\* C16: on a question without listing keyword, the index being there, the
\* context has the number N of indexed files, an entry for each of the first
\* min(3, N) items of the index, in the order of the index, each with its
\* line count and its first declarations, two at most, and the remaining
\* count N - 3 exactly when N > 3.
C16_DetailFirstThree ==
    [][\A question \in ContextQuestions :
         LoadContext(question) /\ ~HasListingKeyword(question)
         /\ index_file.state = "ok" =>
             LET index == index_file.dict
                 N == Len(index)
                 entries == context'.entries
             IN /\ context'.count = N
                /\ Len(entries) = Min(3, N)
                /\ \A i \in 1..Len(entries) :
                       /\ entries[i].filepath = index[i].k
                       /\ entries[i].lines = index[i].v.lines
                       /\ IsPrefixUpTo(entries[i].functions,
                                       index[i].v.functions, 2)
                /\ IF N > 3 THEN context'.more = N - 3 ELSE context'.more = 0
                /\ context'.files = << >>]_vars

\* a detail context of an index of more than 3 files, one of the entries
\* belonging to a file of more than 2 declarations
C16_Witness ==
    /\ last.op = "context"
    /\ context.kind = "=== PROJECT CONTEXT ==="
    /\ context.count > 3
    /\ context.more = context.count - 3
    /\ \E i \in 1..Len(context.entries) :
           /\ Len(context.entries[i].functions) = 2
           /\ Len(index_file.dict[i].v.functions) > 2

\* the places of the lines of content c that hold an import / a declaration
\* for the declared type
ImportPlaces(c, extension) ==
    {i \in 1..Len(split(c)) : IsImport(strip(split(c)[i]), extension)}

FunctionPlaces(c, extension) ==
    {i \in 1..Len(split(c)) : IsFunction(strip(split(c)[i]), extension)}

\* the k-th smallest of a set of places
Kth(places, k) ==
    CHOOSE i \in places : Cardinality({j \in places : j <= i}) = k

\* found holds the stripped lines of c at the first 10 of the places, in
\* the order of the file
IsFirstTen(found, c, places) ==
    /\ Len(found) = Min(Cardinality(places), 10)
    /\ \A k \in 1..Len(found) : found[k] = strip(split(c)[Kth(places, k)])

\* C18: the FileRecords of a scan hold, as imports and as functions, the
\* first 10 matching lines of the file in file order, all of them when
\* there are fewer, and two empty sequences when the declared type is
\* neither .py nor one of .js, .jsx, .ts, .tsx.
C18_FirstTenInFileOrder ==
    last.op = "setup" =>
        \A i \in 1..Len(index_file.dict) :
            LET c == disk[index_file.dict[i].k].content
                info == index_file.dict[i].v
            IN /\ IsFirstTen(info.imports, c, ImportPlaces(c, info.extension))
               /\ IsFirstTen(info.functions, c,
                             FunctionPlaces(c, info.extension))
               /\ info.extension \notin {".py", ".js", ".jsx", ".ts", ".tsx"} =>
                      info.imports = << >> /\ info.functions = << >>

\* a scan of a .py file and a .js file with more than 10 matches each, and
\* of a file of another type
C18_Witness ==
    /\ last.op = "setup"
    /\ \E i, j, k \in 1..Len(index_file.dict) :
           /\ index_file.dict[i].v.extension = ".py"
           /\ Len(index_file.dict[i].v.functions) = 10
           /\ Cardinality(FunctionPlaces("v3", ".py")) > 10
           /\ index_file.dict[j].v.extension = ".js"
           /\ Len(index_file.dict[j].v.imports) = 10
           /\ Len(index_file.dict[j].v.functions) = 10
           /\ index_file.dict[k].v.extension = ".md"
           /\ disk["d.md"].content = "v3"

----------------------------------------------------------------------------
(* Files that cannot be hashed or read: properties *)

\* C17: a completed full rescan has written both documents; every supported
\* file that reads as text has its FingerprintEntry, and a supported file
\* whose hashing or text reading fails has neither FileRecord nor
\* FingerprintEntry.
C17_FailingFileSkipped ==
    RescanCompleted =>
        /\ index_file.state = "ok"
        /\ hashes_file.state = "ok"
        /\ \A p \in Paths :
               IsCodeFile(p) /\ exists(disk[p]) =>
                   IF disk[p].kind = "text"
                   THEN Has(hashes_file.dict, p)
                   ELSE /\ ~Has(index_file.dict, p)
                        /\ ~Has(hashes_file.dict, p)

\* the Content Hasher gives no fingerprint for the supported file at p
Unavailable(p) ==
    IsCodeFile(p) /\ exists(disk[p]) /\ get_file_hash(disk[p]) = None

\* the fingerprint document is in step with the tree but for the files that
\* have no fingerprint: each other supported file has its fingerprint
\* persisted, and each persisted path is on disk
OnlyUnavailableDiffer ==
    /\ hashes_file.state = "ok"
    /\ \E p \in Paths : Unavailable(p)
    /\ \A p \in Paths :
           IsCodeFile(p) /\ exists(disk[p]) /\ ~Unavailable(p) =>
               ~FingerprintDiffers(p)
    /\ \A p \in Keys(hashes_file.dict) : exists(disk[p])

\* C19: check_for_changes does not rescan a tree in which only files
\* without fingerprint differ from the fingerprint document, and
\* update_single_file on a file without fingerprint leaves that path's
\* FileRecord and FingerprintEntry as they were.
C19_UnavailableMeansSkip ==
    [][/\ CheckForChanges /\ OnlyUnavailableDiffer => ~last'.scanned
       /\ \A p \in CodePaths :
              UpdateSingleFile(p) /\ Unavailable(p) =>
                  /\ Entry(index_file'.dict, p) = Entry(index_file.dict, p)
                  /\ Entry(hashes_file'.dict, p) = Entry(hashes_file.dict, p)]_vars

----------------------------------------------------------------------------
(* Events with absolute paths: properties *)

\* C20: after an accepted created or modified event that carries the
\* absolute path of a supported file on disk, both mappings have an entry
\* under the file's relative path; after an accepted deleted event neither
\* mapping has that path.
C20_AbsoluteEventsReachIndex ==
    [][\A p \in CodePaths :
         /\ on_created(SrcPath(TRUE, p), FALSE) /\ disk[p].kind = "text" =>
              Has(index_file'.dict, p) /\ Has(hashes_file'.dict, p)
         /\ on_modified(SrcPath(TRUE, p), FALSE) /\ ~Debounced(now, last_update)
            /\ disk[p].kind = "text" =>
              Has(index_file'.dict, p) /\ Has(hashes_file'.dict, p)
         /\ on_deleted(SrcPath(TRUE, p), FALSE) =>
              ~Has(index_file'.dict, p) /\ ~Has(hashes_file'.dict, p)]_vars

----------------------------------------------------------------------------
(* The fallback request: properties *)

\* C23: a query posts its second, non-streaming request only when the
\* streaming request got no reply: never after a streaming response that
\* was received, whatever fails afterwards.
C23_FallbackOnlyOnTransportFailure ==
    last.op = "query" /\ Len(requests) = 2 =>
        requests[1].reply.status = "failure"

----------------------------------------------------------------------------
(* The debounce and the freshness of the index: properties *)

\* the FingerprintEntry of p is the fingerprint of the file now at p
FingerprintCurrent(p) ==
    /\ Has(hashes_file.dict, p)
    /\ Get(hashes_file.dict, p) = get_file_hash(disk[p])

\* C24: whenever a modified event for a supported file on disk has been
\* delivered, that file's FingerprintEntry is the fingerprint of its
\* content; so it is when the events stop, whichever event was the last.
C24_DebounceNeverStale ==
    [][\A p \in CodePaths :
         on_modified(SrcPath(FALSE, p), FALSE) /\ exists(disk[p]) =>
             FingerprintCurrent(p)']_vars

----------------------------------------------------------------------------
(* A crash between the two writes: properties *)

\* the two documents agree: the same paths, and each FingerprintEntry is
\* the fingerprint of a file that gives the FileRecord
DocumentsAgree ==
    /\ Keys(index_file.dict) = Keys(hashes_file.dict)
    /\ \A p \in Keys(index_file.dict) :
           \E f \in Files :
               /\ get_file_hash(f) = Get(hashes_file.dict, p)
               /\ FileRecord(p, f) = Get(index_file.dict, p)

\* C22: a crash between the two writes leaves the index document written
\* and the fingerprint document as it was; when the two then disagree, the
\* check_for_changes of the next invocation runs a full rescan.
C22_CrashThenRescan ==
    [][/\ last'.op = "crash" => hashes_file' = hashes_file
       /\ (last.op = "crash" /\ ~DocumentsAgree /\ CheckForChanges) => last'.scanned]_vars

----------------------------------------------------------------------------
(* A rescan and an update at once: properties *)

\* both calls have returned
BothDone == scanning.pc = "done" /\ updating.pc = "done"

\* C21: scan_codebase and update_single_file take no lock: every step of the
\* one can be taken wherever the other stands, and each document is what
\* the call that wrote it last held, nothing of the other call's write
\* being kept.
C21_LastWriteWins ==
    /\ scanning.pc = "idle" => ENABLED ScanLoadHashes
    /\ scanning.pc = "loaded" => ENABLED ScanWalk
    /\ scanning.pc = "walked" => ENABLED ScanWriteIndex
    /\ scanning.pc = "index_written" => ENABLED ScanWriteHashes
    /\ updating.pc = "idle" => \A p \in RacePaths : ENABLED UpdateLoadIndex(p)
    /\ updating.pc = "index_loaded" => ENABLED UpdateLoadHashes
    /\ updating.pc = "loaded" => ENABLED UpdateFile
    /\ updating.pc = "changed" => ENABLED UpdateWriteIndex
    /\ updating.pc = "index_written" => ENABLED UpdateWriteHashes
    /\ writers.index = "scan" => index_file = Document(scanning.index)
    /\ writers.index = "update" => index_file = Document(updating.index)
    /\ writers.hashes = "scan" => hashes_file = Document(scanning.current_hashes)
    /\ writers.hashes = "update" => hashes_file = Document(updating.hashes)

\* both calls returned; the index document is the rescan's and the
\* fingerprint document the update's, and the record the update wrote for
\* its file, which is on disk, is not in the index document
C21_Witness ==
    /\ BothDone
    /\ writers.index = "scan" /\ writers.hashes = "update"
    /\ exists(disk[updating.path])
    /\ Has(updating.index, updating.path)
    /\ ~Has(index_file.dict, updating.path)
    /\ Has(hashes_file.dict, updating.path)

====
